---- MODULE Spec2Model ----
(***************************************************************************)
(* Model of crypto_complete.py: the Wallet class (a symbol -> amount       *)
(* mapping written through to a JSON file), the two report loops           *)
(* (print_prices, print_all_time_highs) over a stubbed price source, and   *)
(* the dispatch of main().                                                 *)
(*                                                                         *)
(* Representation.                                                         *)
(*  - A Python dict is [order, amt]: the keys in insertion order and the   *)
(*    key -> value function.  Python's == on dicts compares amt only.      *)
(*  - A JSON object document is the sequence of its members <<key, value>> *)
(*    in text order; json.dump emits one member per dict item, json.load   *)
(*    inserts the members one by one (a repeated key keeps its first       *)
(*    position and takes the last value).                                  *)
(*  - An optional argument (Python None or a value) is <<>> or <<v>>.      *)
(*  - Amounts and prices are small naturals; the arithmetic of the code on *)
(*    them (products, sums, a quotient kept as numerator and denominator)  *)
(*    is exact on floats of that size.                                     *)
(*  - Printed lines are records; the column padding and the .2f rendering  *)
(*    of the numbers are not modelled.                                     *)
(***************************************************************************)
EXTENDS Integers, Sequences, FiniteSets, TLC

VARIABLES
    files,        \* path -> [exists, doc]: the file system
    wallet,       \* the live Wallet object of the caller: [alive, file_path, data]
    ret,          \* return value of the last call: <<>> (None) or <<v>>
    out,          \* lines printed by the running / last call
    last,         \* the last call and its arguments
    pc,           \* "idle", or the report loop being run
    syms,         \* the symbol list the running report iterates over
    idx,          \* position of the loop in syms
    total_value,  \* print_prices: running total
    pwallet,      \* print_prices: the function's local variable `wallet`
    given,        \* print_prices: the wallet argument the caller passed, if any
    fetched,      \* the loop body's first fetched value (daily_open, ath)
    fed,          \* what the price source served for each symbol visited
    cli           \* main: the parsed arguments and the branch taken

vars == <<files, wallet, ret, out, last, pc, syms, idx, total_value, pwallet,
          given, fetched, fed, cli>>

----------------------------------------------------------------------------
(* Bounds of the model *)

MaxAmount == 1
MaxPrice == 1
MaxCandles == 2

Amounts == 0..MaxAmount
Prices == 0..MaxPrice

(* Program constants *)

KlineLimit == 2
WalletFile == "wallet.json"
DefaultSymbols == <<"BTC", "ETH", "LINK", "DOT", "ADA">>
Unit == "USDT"

(* Inputs *)

Paths == {WalletFile, "other.json"}
Symbols == {"", "BTC", "ETH"}
None == <<>>
Some(v) == <<v>>
OptSymbols == {None} \cup {Some(s) : s \in Symbols}

----------------------------------------------------------------------------
(* Python dict *)

EmptyDict == [order |-> <<>>, amt |-> [k \in {} |-> 0]]

DictHas(d, k) == k \in DOMAIN d.amt

DictSet(d, k, v) ==
    [order |-> IF DictHas(d, k) THEN d.order ELSE Append(d.order, k),
     amt   |-> [x \in (DOMAIN d.amt) \cup {k} |-> IF x = k THEN v ELSE d.amt[x]]]

DictDel(d, k) ==
    [order |-> SelectSeq(d.order, LAMBDA x : x # k),
     amt   |-> [x \in (DOMAIN d.amt) \ {k} |-> d.amt[x]]]

DictGet(d, k, default) == IF DictHas(d, k) THEN d.amt[k] ELSE default

DictKeys(d) == d.order

(* Python truthiness of an optional string: None and "" are falsy *)
Truthy(opt) == opt # None /\ opt[1] # ""

----------------------------------------------------------------------------
(* json.dump / json.load of a symbol -> amount object *)

\* (mutant) only the item written last reaches the file
JsonDumpLastItemOnly(d) ==
    IF Len(d.order) = 0 THEN <<>>
    ELSE <<(<<d.order[Len(d.order)], d.amt[d.order[Len(d.order)]]>>)>>

JsonDump(d) == [i \in 1..Len(d.order) |-> <<d.order[i], d.amt[d.order[i]]>>]

RECURSIVE JsonLoadFrom(_, _, _)
JsonLoadFrom(doc, i, d) ==
    IF i > Len(doc) THEN d
    ELSE JsonLoadFrom(doc, i + 1, DictSet(d, doc[i][1], doc[i][2]))

JsonLoad(doc) == JsonLoadFrom(doc, 1, EmptyDict)

AbsentFile == [exists |-> FALSE, doc |-> <<>>]
FileOf(doc) == [exists |-> TRUE, doc |-> doc]

----------------------------------------------------------------------------
(* class Wallet *)

NoWallet == [alive |-> FALSE, file_path |-> "", data |-> EmptyDict]

\* Wallet._load on file system fs
WalletLoad(fs, path) ==
    IF fs[path].exists THEN JsonLoad(fs[path].doc) ELSE EmptyDict

\* Wallet.__init__
WalletNew(fs, path) ==
    [alive |-> TRUE, file_path |-> path, data |-> WalletLoad(fs, path)]

\* Wallet.save: the file system after the whole document is rewritten
WalletSave(fs, w) == [fs EXCEPT ![w.file_path] = FileOf(JsonDump(w.data))]

\* Wallet.update: <<wallet after, file system after>>
WalletUpdate(fs, w, symbol, amount) ==
    LET w2 == [w EXCEPT !.data = DictSet(w.data, symbol, amount)]
    IN  [w |-> w2, fs |-> WalletSave(fs, w2), saved |-> TRUE]

\* (mutant) the symbol is deleted in memory and the file is not rewritten
WalletClearForgetsSave(fs, w, symbol) ==
    IF Truthy(symbol) /\ DictHas(w.data, symbol[1])
    THEN [w |-> [w EXCEPT !.data = DictDel(w.data, symbol[1])], fs |-> fs,
          saved |-> TRUE, msg |-> [kind |-> "cleared", sym |-> symbol[1]]]
    ELSE [w |-> [w EXCEPT !.data = EmptyDict],
          fs |-> WalletSave(fs, [w EXCEPT !.data = EmptyDict]), saved |-> TRUE,
          msg |-> [kind |-> "cleared entire wallet", sym |-> ""]]

\* (mutant) the file is rewritten on the not-found path too
WalletClearSavesWhenNotFound(fs, w, symbol) ==
    IF Truthy(symbol)
    THEN LET w2 == [w EXCEPT !.data = DictDel(w.data, symbol[1])]
         IN  [w |-> w2, fs |-> WalletSave(fs, w2), saved |-> TRUE,
              msg |-> [kind |-> "cleared", sym |-> symbol[1]]]
    ELSE LET w2 == [w EXCEPT !.data = EmptyDict]
         IN  [w |-> w2, fs |-> WalletSave(fs, w2), saved |-> TRUE,
              msg |-> [kind |-> "cleared entire wallet", sym |-> ""]]

\* Wallet.clear(symbol=None)
WalletClear(fs, w, symbol) ==
    IF Truthy(symbol)
    THEN IF DictHas(w.data, symbol[1])
         THEN LET w2 == [w EXCEPT !.data = DictDel(w.data, symbol[1])]
              IN  [w |-> w2, fs |-> WalletSave(fs, w2), saved |-> TRUE,
                   msg |-> [kind |-> "cleared", sym |-> symbol[1]]]
         ELSE [w |-> w, fs |-> fs, saved |-> FALSE,
               msg |-> [kind |-> "not found", sym |-> symbol[1]]]
    ELSE LET w2 == [w EXCEPT !.data = EmptyDict]
         IN  [w |-> w2, fs |-> WalletSave(fs, w2), saved |-> TRUE,
              msg |-> [kind |-> "cleared entire wallet", sym |-> ""]]

\* (mutant) a symbol that is not held is reported with a nonzero amount
WalletGetWrongDefault(w, symbol) == DictGet(w.data, symbol, 1)

\* Wallet.get
WalletGet(w, symbol) == DictGet(w.data, symbol, 0)

\* Wallet.symbols
WalletSymbols(w) == DictKeys(w.data)

\* (mutant) the wallet is true only when it holds something
WalletTruthyWhenHolding(w) == Len(w.data.order) > 0

\* bool(wallet): the class defines neither __bool__ nor __len__
WalletTruthy(w) == TRUE

----------------------------------------------------------------------------
(* The calls of the Wallet interface as actions *)

NoCli == [args |-> [ath |-> FALSE, wallet |-> None, symbol |-> None, amount |-> None],
          ran |-> "none"]

Call(op, sym, amt, saved) == [op |-> op, sym |-> sym, amt |-> amt, saved |-> saved]

\* no report is running; the locals of a report that has returned are gone
NoLocals ==
    /\ syms' = <<>>
    /\ idx' = 0
    /\ total_value' = 0
    /\ pwallet' = NoWallet
    /\ given' = None
    /\ fetched' = 0
    /\ fed' = <<>>

LoopIdle == /\ pc = "idle"
            /\ pc' = pc
            /\ NoLocals
            /\ UNCHANGED cli

Construct(path) ==
    /\ LoopIdle
    /\ wallet' = WalletNew(files, path)
    /\ ret' = None
    /\ out' = <<>>
    /\ last' = Call("init", None, None, FALSE)
    /\ UNCHANGED files

Update(symbol, amount) ==
    /\ LoopIdle
    /\ wallet.alive
    /\ LET r == WalletUpdate(files, wallet, symbol, amount)
       IN  /\ wallet' = r.w
           /\ files' = r.fs
           /\ last' = Call("update", Some(symbol), Some(amount), r.saved)
    /\ ret' = None
    /\ out' = <<>>

Clear(symbol) ==
    /\ LoopIdle
    /\ wallet.alive
    /\ LET r == WalletClear(files, wallet, symbol)
       IN  /\ wallet' = r.w
           /\ files' = r.fs
           /\ out' = <<r.msg>>
           /\ last' = Call("clear", symbol, None, r.saved)
    /\ ret' = None

Get(symbol) ==
    /\ LoopIdle
    /\ wallet.alive
    /\ ret' = Some(WalletGet(wallet, symbol))
    /\ out' = <<>>
    /\ last' = Call("get", Some(symbol), None, FALSE)
    /\ UNCHANGED <<files, wallet>>

SymbolsCall ==
    /\ LoopIdle
    /\ wallet.alive
    /\ ret' = Some(WalletSymbols(wallet))
    /\ out' = <<>>
    /\ last' = Call("symbols", None, None, FALSE)
    /\ UNCHANGED <<files, wallet>>

----------------------------------------------------------------------------
(* The price source: what one HTTP GET is answered with.  A candle is the  *)
(* API's array, of which the code reads index 1 (open) and index 2 (high), *)
(* here positions 2 and 3.                                                 *)

HttpError == [status |-> "error", data |-> <<>>]
HttpOk(data) == [status |-> "ok", data |-> data]

\* <<open time, open, high>>, the high not below the open
Candles == {<<0, p[1], p[2]>> : p \in {q \in Prices \X Prices : q[1] <= q[2]}}

RECURSIVE SeqsUpTo(_, _)
SeqsUpTo(S, n) ==
    IF n = 0 THEN {<<>>}
    ELSE LET shorter == SeqsUpTo(S, n - 1)
         IN  shorter \cup {Append(s, x) : s \in {t \in shorter : Len(t) = n - 1},
                                          x \in S}

\* klines?interval=1d&limit=2
DailyResponses == {HttpError} \cup {HttpOk(cs) : cs \in SeqsUpTo(Candles, KlineLimit)}
\* klines?interval=1M
MonthlyResponses == {HttpError} \cup {HttpOk(cs) : cs \in SeqsUpTo(Candles, MaxCandles)}
\* ticker/price: a JSON object with or without the field 'price'
TickerResponses == {HttpError} \cup {HttpOk(None)} \cup {HttpOk(Some(p)) : p \in Prices}

Raise(err) == [ok |-> FALSE, err |-> err, value |-> 0]
Return(v) == [ok |-> TRUE, err |-> "", value |-> v]

\* (mutant) a reply without the field 'price' is read as the price 0
FetchPriceDataDefaultsPrice(interval, response) ==
    IF interval # None
    THEN IF response.status # "ok" THEN Raise("HTTPError")
         ELSE IF Len(response.data) < 2 THEN Raise("IndexError")
         ELSE IF response.data[1][2] = 0 THEN Raise("ZeroDivisionError")
         ELSE Return(<<response.data[2][2],
                       <<response.data[2][2] - response.data[1][2],
                         response.data[1][2]>>>>)
    ELSE IF response.status # "ok" THEN Raise("HTTPError")
         ELSE IF response.data = None THEN Return(0)
         ELSE Return(response.data[1])

\* fetch_price_data(symbol, interval) on the reply the GET gets
FetchPriceData(interval, response) ==
    IF interval # None
    THEN IF response.status # "ok" THEN Raise("HTTPError")
         ELSE IF Len(response.data) < 2 THEN Raise("IndexError")
         ELSE LET open_yesterday == response.data[1][2]
                  open_today     == response.data[2][2]
              IN  IF open_yesterday = 0 THEN Raise("ZeroDivisionError")
                  ELSE Return(<<open_today,
                                <<open_today - open_yesterday, open_yesterday>>>>)
    ELSE IF response.status # "ok" THEN Raise("HTTPError")
         ELSE IF response.data = None THEN Raise("KeyError")
         ELSE Return(response.data[1])

RECURSIVE MaxHigh(_, _)
MaxHigh(candles, i) ==
    IF i = Len(candles) THEN candles[i][3]
    ELSE LET rest == MaxHigh(candles, i + 1)
         IN  IF candles[i][3] >= rest THEN candles[i][3] ELSE rest

\* fetch_all_time_high(symbol) on the reply the GET gets
FetchAllTimeHigh(response) ==
    IF response.status # "ok" THEN Raise("HTTPError")
    ELSE IF Len(response.data) = 0 THEN Raise("ValueError")
    ELSE Return(MaxHigh(response.data, 1))

----------------------------------------------------------------------------
(* Printed lines *)

TitleLine(report) == [kind |-> "title", report |-> report]
HeaderLine(report) == [kind |-> "header", report |-> report]
RuleLine == [kind |-> "rule"]
ErrorLine(symbol) == [kind |-> "error", sym |-> symbol]
TotalLine(v) == [kind |-> "total", value |-> v]

----------------------------------------------------------------------------
(* print_prices *)

\* the body of the loop after the two fetches: <<line printed, total after>>
PricesRow(w, symbol, daily_open, current_price, total) ==
    IF daily_open = 0
    THEN [line |-> ErrorLine(symbol), total |-> total]
    ELSE LET percent_change == <<(current_price - daily_open) * 100, daily_open>>
             wallet_value   == IF WalletTruthy(w)
                               THEN WalletGet(w, symbol) * current_price
                               ELSE WalletGet(w, symbol)
             total_after    == IF WalletTruthy(w) THEN total + wallet_value ELSE total
         IN  [line  |-> [kind |-> "row", sym |-> symbol, open |-> daily_open,
                         current |-> current_price, change |-> percent_change,
                         wallet_value |-> wallet_value],
              total |-> total_after]

\* the wallet the loop values the rows with: the parameter is overwritten by
\* a Wallet loaded from 'wallet.json'
PricesWallet(fs, supplied) == WalletNew(fs, WalletFile)

\* the function up to the loop
BeginPrices(symbols, supplied) ==
    /\ pc = "idle"
    /\ out' = <<TitleLine("prices"), HeaderLine("prices"), RuleLine>>
    /\ total_value' = 0
    /\ pwallet' = PricesWallet(files, supplied)
    /\ given' = supplied
    /\ syms' = symbols
    /\ idx' = 1
    /\ fetched' = 0
    /\ fed' = <<>>
    /\ pc' = "prices:daily"
    /\ ret' = None

PrintPrices(symbols, supplied) ==
    /\ BeginPrices(symbols, supplied)
    /\ last' = Call("print_prices", None, None, FALSE)
    /\ UNCHANGED <<files, wallet, cli>>

\* what the source served, as the stub knows it
DailyFails(response) ==
    \/ response.status = "error"
    \/ Len(response.data) < 2
    \/ response.data[1][2] = 0

TickerFails(response) == response.status = "error" \/ response.data = None

MonthlyFails(response) == response.status = "error" \/ response.data = <<>>

Served(fetch, first, price) == [fetch |-> fetch, first |-> first, price |-> price]

\* daily_open, _ = fetch_price_data(pair, interval='1d')
PricesFetchDaily(response) ==
    /\ pc = "prices:daily"
    /\ idx <= Len(syms)
    /\ LET r == FetchPriceData(Some("1d"), response)
       IN  IF r.ok
           THEN /\ fetched' = r.value[1]
                /\ pc' = "prices:current"
                /\ UNCHANGED <<out, idx>>
           ELSE /\ out' = Append(out, ErrorLine(syms[idx]))
                /\ idx' = idx + 1
                /\ UNCHANGED <<fetched, pc>>
    /\ fed' = Append(fed, IF DailyFails(response) THEN Served("failed", 0, 0)
                          ELSE Served("ok", response.data[2][2], 0))
    /\ UNCHANGED <<files, wallet, ret, last, syms, total_value, pwallet, given, cli>>

\* current_price = fetch_price_data(pair), and the rest of the loop body
PricesFetchCurrent(response) ==
    /\ pc = "prices:current"
    /\ LET r == FetchPriceData(None, response)
       IN  IF r.ok
           THEN LET row == PricesRow(pwallet, syms[idx], fetched, r.value, total_value)
                IN  /\ out' = Append(out, row.line)
                    /\ total_value' = row.total
           ELSE /\ out' = Append(out, ErrorLine(syms[idx]))
                /\ UNCHANGED total_value
    /\ fed' = [fed EXCEPT ![Len(fed)] =
                 IF TickerFails(response) THEN Served("failed", 0, 0)
                 ELSE Served("ok", fed[Len(fed)].first, response.data[1])]
    /\ idx' = idx + 1
    /\ fetched' = 0
    /\ pc' = "prices:daily"
    /\ UNCHANGED <<files, wallet, ret, last, syms, pwallet, given, cli>>

\* after the loop: the total
PricesEnd ==
    /\ pc = "prices:daily"
    /\ idx > Len(syms)
    /\ out' = IF WalletTruthy(pwallet)
              THEN out \o <<RuleLine, TotalLine(total_value)>>
              ELSE out
    /\ pc' = "idle"
    /\ UNCHANGED <<files, wallet, ret, last, syms, idx, total_value, pwallet,
                   given, fetched, fed, cli>>

----------------------------------------------------------------------------
(* print_all_time_highs *)

\* the body of the loop after the two fetches
AthRow(symbol, ath, current_price) ==
    IF ath = 0
    THEN ErrorLine(symbol)
    ELSE [kind |-> "ath row", sym |-> symbol, ath |-> ath, current |-> current_price,
          change |-> <<(current_price - ath) * 100, ath>>]

BeginAllTimeHighs(symbols) ==
    /\ pc = "idle"
    /\ out' = <<TitleLine("ath"), HeaderLine("ath"), RuleLine>>
    /\ syms' = symbols
    /\ idx' = 1
    /\ fetched' = 0
    /\ fed' = <<>>
    /\ given' = None
    /\ pc' = "ath:high"
    /\ ret' = None
    /\ total_value' = 0
    /\ pwallet' = NoWallet

PrintAllTimeHighs(symbols) ==
    /\ BeginAllTimeHighs(symbols)
    /\ last' = Call("print_all_time_highs", None, None, FALSE)
    /\ UNCHANGED <<files, wallet, cli>>

\* ath = fetch_all_time_high(symbol)
AthFetchHigh(response) ==
    /\ pc = "ath:high"
    /\ idx <= Len(syms)
    /\ LET r == FetchAllTimeHigh(response)
       IN  IF r.ok
           THEN /\ fetched' = r.value
                /\ pc' = "ath:current"
                /\ UNCHANGED <<out, idx>>
           ELSE /\ out' = Append(out, ErrorLine(syms[idx]))
                /\ idx' = idx + 1
                /\ UNCHANGED <<fetched, pc>>
    /\ fed' = Append(fed, IF MonthlyFails(response) THEN Served("failed", 0, 0)
                          ELSE Served("ok", CHOOSE h \in {c[3] : c \in
                                   {response.data[i] : i \in DOMAIN response.data}} :
                                   \A i \in DOMAIN response.data :
                                       response.data[i][3] <= h, 0))
    /\ UNCHANGED <<files, wallet, ret, last, syms, total_value, pwallet, given, cli>>

\* current_price = fetch_price_data(pair), and the rest of the loop body
AthFetchCurrent(response) ==
    /\ pc = "ath:current"
    /\ LET r == FetchPriceData(None, response)
       IN  out' = Append(out, IF r.ok THEN AthRow(syms[idx], fetched, r.value)
                              ELSE ErrorLine(syms[idx]))
    /\ fed' = [fed EXCEPT ![Len(fed)] =
                 IF TickerFails(response) THEN Served("failed", 0, 0)
                 ELSE Served("ok", fed[Len(fed)].first, response.data[1])]
    /\ idx' = idx + 1
    /\ fetched' = 0
    /\ pc' = "ath:high"
    /\ UNCHANGED <<files, wallet, ret, last, syms, total_value, pwallet, given, cli>>

\* the loop is exhausted and the function returns
AthEnd ==
    /\ pc = "ath:high"
    /\ idx > Len(syms)
    /\ pc' = "idle"
    /\ UNCHANGED <<files, wallet, ret, out, last, syms, idx, total_value, pwallet,
                   given, fetched, fed, cli>>

----------------------------------------------------------------------------
(* main *)

\* what argparse can return: the positionals are filled left to right, so
\* an amount comes only with a symbol
ArgsSet ==
    {a \in [ath    : BOOLEAN,
            wallet : {None, Some("update"), Some("show"), Some("clear")},
            symbol : {None, Some(""), Some("BTC")},
            amount : {None} \cup {Some(n) : n \in Amounts}] :
        a.symbol = None => a.amount = None}

\* (mutant) the wallet options are tested before the ath flag
MainBranchWalletFirst(args) ==
    IF args.wallet = Some("update") THEN "update"
    ELSE IF args.wallet = Some("show") THEN "show"
    ELSE IF args.wallet = Some("clear") THEN "clear"
    ELSE IF args.ath THEN "ath"
    ELSE "prices"

\* the if / elif chain of main: the branch that runs
MainBranch(args) ==
    IF args.ath THEN "ath"
    ELSE IF args.wallet = Some("update") THEN "update"
    ELSE IF args.wallet = Some("show") THEN "show"
    ELSE IF args.wallet = Some("clear") THEN "clear"
    ELSE "prices"

\* (mutant) the amount is tested for truth, so 0 counts as missing
MainUpdateAmountTruthy(fs, w, args) ==
    IF Truthy(args.symbol) /\ args.amount # None /\ args.amount # Some(0)
    THEN LET r == WalletUpdate(fs, w, args.symbol[1], args.amount[1])
         IN  [w |-> r.w, fs |-> r.fs, saved |-> r.saved,
              msg |-> [kind |-> "updated", sym |-> args.symbol[1]]]
    ELSE [w |-> w, fs |-> fs, saved |-> FALSE,
          msg |-> [kind |-> "must provide", sym |-> ""]]

\* the branch args.wallet == 'update'
MainUpdate(fs, w, args) ==
    IF Truthy(args.symbol) /\ args.amount # None
    THEN LET r == WalletUpdate(fs, w, args.symbol[1], args.amount[1])
         IN  [w |-> r.w, fs |-> r.fs, saved |-> r.saved,
              msg |-> [kind |-> "updated", sym |-> args.symbol[1]]]
    ELSE [w |-> w, fs |-> fs, saved |-> FALSE,
          msg |-> [kind |-> "must provide", sym |-> ""]]

\* the branch args.wallet == 'clear'
MainClear(fs, w, args) ==
    IF Truthy(args.symbol) THEN WalletClear(fs, w, args.symbol)
    ELSE WalletClear(fs, w, None)

NoLoop == pc' = pc /\ NoLocals

Main(args) ==
    /\ pc = "idle"
    /\ LET w      == WalletNew(files, WalletFile)
           branch == MainBranch(args)
       IN  /\ cli' = [args |-> args, ran |-> branch]
           /\ CASE branch = "ath" ->
                    /\ BeginAllTimeHighs(DefaultSymbols)
                    /\ wallet' = w
                    /\ last' = Call("main", args.symbol, args.amount, FALSE)
                    /\ UNCHANGED files
                [] branch = "update" ->
                    LET r == MainUpdate(files, w, args)
                    IN  /\ wallet' = r.w
                        /\ files' = r.fs
                        /\ out' = <<r.msg>>
                        /\ ret' = None
                        /\ last' = Call("main", args.symbol, args.amount, r.saved)
                        /\ NoLoop
                [] branch = "show" ->
                    /\ BeginPrices(WalletSymbols(w), Some(w))
                    /\ wallet' = w
                    /\ last' = Call("main", args.symbol, args.amount, FALSE)
                    /\ UNCHANGED files
                [] branch = "clear" ->
                    LET r == MainClear(files, w, args)
                    IN  /\ wallet' = r.w
                        /\ files' = r.fs
                        /\ out' = <<r.msg>>
                        /\ ret' = None
                        /\ last' = Call("main", args.symbol, args.amount, r.saved)
                        /\ NoLoop
                [] OTHER ->
                    /\ BeginPrices(DefaultSymbols, None)
                    /\ wallet' = w
                    /\ last' = Call("main", args.symbol, args.amount, FALSE)
                    /\ UNCHANGED files


----------------------------------------------------------------------------
(* Initial file states: absent, or a valid symbol -> amount document *)

KeyOrders == {s \in SeqsUpTo(Symbols, Cardinality(Symbols)) :
                 \A i, j \in 1..Len(s) : i # j => s[i] # s[j]}

Documents ==
    UNION {{[i \in 1..Len(o) |-> <<o[i], a[i]>>] : a \in [1..Len(o) -> Amounts]}
           : o \in KeyOrders}

FileStates == {AbsentFile} \cup {FileOf(doc) : doc \in Documents}

\* A few states for the files no Wallet call of the run rewrites
SeedDocuments ==
    {<<>>}
    \cup {<<(<<"BTC", a>>)>> : a \in 1..MaxAmount}
    \cup {<<(<<"BTC", a>>), (<<"ETH", b>>)>> : a \in 1..MaxAmount, b \in 1..MaxAmount}

SeedFiles == {AbsentFile} \cup {FileOf(doc) : doc \in SeedDocuments}

OtherFiles == {AbsentFile, FileOf(<<(<<"BTC", MaxAmount>>)>>)}

Init ==
    /\ files \in {f \in [Paths -> FileStates] :
                    \A p \in Paths \ {WalletFile} : f[p] \in SeedFiles}
    /\ wallet = NoWallet
    /\ ret = None
    /\ out = <<>>
    /\ last = Call("none", None, None, FALSE)
    /\ pc = "idle"
    /\ syms = <<>>
    /\ idx = 0
    /\ total_value = 0
    /\ pwallet = NoWallet
    /\ given = None
    /\ fetched = 0
    /\ fed = <<>>
    /\ cli = NoCli

Next ==
    \/ Construct(WalletFile)
    \/ \E s \in Symbols, a \in Amounts : Update(s, a)
    \/ \E s \in OptSymbols : Clear(s)
    \/ \E s \in Symbols : Get(s)
    \/ SymbolsCall

Spec == Init /\ [][Next]_vars

(* The reports, called with and without a wallet, on files no call rewrites *)

ReportSymbols == {"BTC", "ETH"}
SymbolLists == {s \in SeqsUpTo(ReportSymbols, Cardinality(ReportSymbols)) :
                   \A i, j \in 1..Len(s) : i # j => s[i] # s[j]}

InitReport ==
    /\ files \in {f \in [Paths -> SeedFiles] :
                    \A p \in Paths \ {WalletFile} : f[p] \in OtherFiles}
    /\ wallet = NoWallet
    /\ ret = None
    /\ out = <<>>
    /\ last = Call("none", None, None, FALSE)
    /\ pc = "idle"
    /\ syms = <<>>
    /\ idx = 0
    /\ total_value = 0
    /\ pwallet = NoWallet
    /\ given = None
    /\ fetched = 0
    /\ fed = <<>>
    /\ cli = NoCli

NextReport ==
    \/ \E path \in Paths : Construct(path)
    \/ \E symbols \in SymbolLists : PrintPrices(symbols, None)
    \/ \E symbols \in SymbolLists : wallet.alive /\ PrintPrices(symbols, Some(wallet))
    \/ \E response \in DailyResponses : PricesFetchDaily(response)
    \/ \E response \in TickerResponses : PricesFetchCurrent(response)
    \/ PricesEnd
    \/ \E symbols \in SymbolLists : PrintAllTimeHighs(symbols)
    \/ \E response \in MonthlyResponses : AthFetchHigh(response)
    \/ \E response \in TickerResponses : AthFetchCurrent(response)
    \/ AthEnd

SpecReport == InitReport /\ [][NextReport]_vars

(* Runs of the program, one after the other, on the same wallet.json *)

InitMain ==
    /\ files \in {f \in [Paths -> SeedFiles] :
                    \A p \in Paths \ {WalletFile} : f[p] = AbsentFile}
    /\ wallet = NoWallet
    /\ ret = None
    /\ out = <<>>
    /\ last = Call("none", None, None, FALSE)
    /\ pc = "idle"
    /\ syms = <<>>
    /\ idx = 0
    /\ total_value = 0
    /\ pwallet = NoWallet
    /\ given = None
    /\ fetched = 0
    /\ fed = <<>>
    /\ cli = NoCli

\* the price source of these runs answers every GET with an error or with
\* one fixed reply
FlatCandle == <<0, 1, 1>>
MainDailyResponses == {HttpError, HttpOk(<<FlatCandle, FlatCandle>>)}
MainMonthlyResponses == {HttpError, HttpOk(<<FlatCandle>>)}
MainTickerResponses == {HttpError, HttpOk(Some(1))}

NextMain ==
    \/ \E args \in ArgsSet : Main(args)
    \/ \E response \in MainDailyResponses : PricesFetchDaily(response)
    \/ \E response \in MainTickerResponses : PricesFetchCurrent(response)
    \/ PricesEnd
    \/ \E response \in MainMonthlyResponses : AthFetchHigh(response)
    \/ \E response \in MainTickerResponses : AthFetchCurrent(response)
    \/ AthEnd

SpecMain == InitMain /\ [][NextMain]_vars

----------------------------------------------------------------------------
(* What a document stores, read off the document itself: the keys that     *)
(* occur in it, each with the value of its last member.                    *)

StoredKeys(doc) == {doc[i][1] : i \in DOMAIN doc}

StoredAmount(doc, k) ==
    LET at == {i \in DOMAIN doc : doc[i][1] = k}
        n  == CHOOSE i \in at : \A j \in at : j <= i
    IN  doc[n][2]

\* the mapping stored at path, an absent file being the empty mapping
StoredMapping(fs, path) ==
    IF fs[path].exists
    THEN [k \in StoredKeys(fs[path].doc) |-> StoredAmount(fs[path].doc, k)]
    ELSE [k \in {} |-> 0]

----------------------------------------------------------------------------
(* C1: after the constructor and after every call of update, clear, get    *)
(* and symbols, the in-memory mapping of the wallet equals the mapping     *)
(* stored in its file (an absent file storing the empty mapping).          *)
WriteThrough ==
    wallet.alive => wallet.data.amt = StoredMapping(files, wallet.file_path)

\* a symbol has been cleared from a wallet that keeps other entries
WriteThroughWitness ==
    /\ wallet.alive
    /\ last.op = "clear"
    /\ last.saved
    /\ Len(wallet.data.order) >= 1

(* C2: after update(sym, amt) a wallet constructed anew from the same path *)
(* returns get(sym) = amt and holds the updating wallet's mapping, which   *)
(* is the prior mapping with only sym changed.                             *)
UpdateReloadRoundTrip ==
    [][last'.op = "update" =>
        LET sym    == last'.sym[1]
            amt    == last'.amt[1]
            reload == WalletNew(files', wallet'.file_path)
        IN  /\ WalletGet(reload, sym) = amt
            /\ reload.data.amt = wallet'.data.amt
            /\ DOMAIN reload.data.amt = (DOMAIN wallet.data.amt) \cup {sym}
            /\ \A k \in (DOMAIN wallet.data.amt) \ {sym} :
                   reload.data.amt[k] = wallet.data.amt[k]]_vars

\* an update that overwrote one of two entries
UpdateReloadWitness ==
    /\ last.op = "update"
    /\ wallet.data.order = <<"BTC", "ETH">>
    /\ last.sym = Some("BTC")
    /\ wallet.data.amt["BTC"] # wallet.data.amt["ETH"]

(* C3 (as claimed): clear(sym) removes exactly the key sym, whatever the   *)
(* symbol value passed, and leaves every other entry; clear() empties the  *)
(* mapping.                                                                *)
ClearRemovesExactlySymbol ==
    [][last'.op = "clear" =>
        IF last'.sym # None
        THEN /\ DOMAIN wallet'.data.amt = (DOMAIN wallet.data.amt) \ {last'.sym[1]}
             /\ \A k \in DOMAIN wallet'.data.amt :
                    wallet'.data.amt[k] = wallet.data.amt[k]
        ELSE DOMAIN wallet'.data.amt = {}]_vars

(* C4 (as claimed): after every call of clear the wallet file exists and   *)
(* holds the current mapping.                                              *)
ClearAlwaysPersists ==
    last.op = "clear" =>
        /\ files[wallet.file_path].exists
        /\ StoredMapping(files, wallet.file_path) = wallet.data.amt

(* C4 (amended): clear called with a non-empty symbol that is not a key    *)
(* touches no file; every other call of clear leaves the wallet file       *)
(* existing and holding the current mapping, the other files untouched.    *)
ClearPersistsUnlessNotFound ==
    [][last'.op = "clear" =>
        IF Truthy(last'.sym) /\ last'.sym[1] \notin DOMAIN wallet.data.amt
        THEN files' = files
        ELSE /\ files'[wallet.file_path].exists
             /\ StoredMapping(files', wallet.file_path) = wallet'.data.amt
             /\ \A p \in Paths \ {wallet.file_path} : files'[p] = files[p]]_vars

\* clear of a symbol that is not held, no wallet file on disk
ClearNotFoundWitness ==
    /\ last.op = "clear"
    /\ Truthy(last.sym)
    /\ ~last.saved
    /\ ~files[wallet.file_path].exists

(* C5: get(sym) returns the held amount, 0 for a symbol that is not a key, *)
(* and changes neither the mapping nor any file.                           *)
GetReturnsAmountOrZero ==
    [][last'.op = "get" =>
        LET sym == last'.sym[1]
        IN  /\ ret' = Some(IF sym \in DOMAIN wallet.data.amt
                           THEN wallet.data.amt[sym] ELSE 0)
            /\ wallet' = wallet
            /\ files' = files]_vars

\* get of a symbol that is not held, in a wallet that holds another
GetAbsentWitness ==
    /\ last.op = "get"
    /\ last.sym[1] \notin DOMAIN wallet.data.amt
    /\ DOMAIN wallet.data.amt # {}
    /\ ret = Some(0)

----------------------------------------------------------------------------
(* Reading a report off the printed lines.  A report prints a title, the   *)
(* column header and a rule, then one line per symbol visited, and         *)
(* print_prices ends with a rule and the total.                            *)

ReportPrinted == out # <<>> /\ out[1].kind = "title"
PricesPrinted == ReportPrinted /\ out[1].report = "prices"
ReportReturned == ReportPrinted /\ pc = "idle"
Visited == idx - 1
LineOf(i) == out[3 + i]
CountLines(kind) == Cardinality({i \in DOMAIN out : out[i].kind = kind})

\* the fetch or the computation for what was served fails: a failed GET, a
\* missing field, too few candles, or a zero divisor
ServedFails(f) == f.fetch = "failed" \/ f.first = 0

\* the amount a wallet holds of a symbol, 0 if it holds none
HeldAmount(w, symbol) ==
    IF symbol \in DOMAIN w.data.amt THEN w.data.amt[symbol] ELSE 0

RECURSIVE SumRowValues(_)
SumRowValues(i) ==
    IF i = 0 THEN 0
    ELSE SumRowValues(i - 1)
         + (IF LineOf(i).kind = "row" THEN LineOf(i).wallet_value ELSE 0)

(* C6: both report loops print exactly one line per symbol, in the order   *)
(* supplied; the line of a symbol is an error line exactly when its fetch  *)
(* or computation failed and otherwise the row of the values fetched for   *)
(* that symbol; a returned report has visited every symbol.                *)
OneLinePerSymbol ==
    ReportPrinted =>
        /\ Visited <= Len(syms)
        /\ (pc = "idle" => Visited = Len(syms))
        /\ Len(out) = 3 + Visited + (IF pc = "idle" /\ PricesPrinted THEN 2 ELSE 0)
        /\ \A i \in 1..Visited :
              /\ LineOf(i).sym = syms[i]
              /\ LineOf(i).kind = "error" <=> ServedFails(fed[i])
              /\ ~ServedFails(fed[i]) =>
                    IF PricesPrinted
                    THEN /\ LineOf(i).kind = "row"
                         /\ LineOf(i).open = fed[i].first
                         /\ LineOf(i).current = fed[i].price
                         /\ LineOf(i).change =
                               <<(fed[i].price - fed[i].first) * 100, fed[i].first>>
                    ELSE /\ LineOf(i).kind = "ath row"
                         /\ LineOf(i).ath = fed[i].first
                         /\ LineOf(i).current = fed[i].price
                         /\ LineOf(i).change =
                               <<(fed[i].price - fed[i].first) * 100, fed[i].first>>

\* a returned report of two symbols: the first failed, the second has its row
OneLinePerSymbolWitness ==
    /\ ReportReturned
    /\ Len(syms) = 2
    /\ LineOf(1).kind = "error"
    /\ LineOf(2).kind \in {"row", "ath row"}
    /\ LineOf(2).current # LineOf(2).change[2]

(* C7 (as claimed): print_prices called with a wallet, every fetch of the  *)
(* price source succeeding, prints |S| data rows, one column header and    *)
(* one total, the total last.                                              *)
RowCountWhenFetchesSucceed ==
    (/\ ReportReturned
     /\ PricesPrinted
     /\ given # None
     /\ \A i \in DOMAIN fed : fed[i].fetch = "ok")
    => /\ CountLines("row") = Len(syms)
       /\ CountLines("header") = 1
       /\ CountLines("total") = 1
       /\ out[Len(out)].kind = "total"

(* C7 (amended): print_prices called with a wallet, every fetch succeeding *)
(* with a daily open that is not zero, prints |S| data rows, one column    *)
(* header and one total, the total last.                                   *)
RowCountWhenNothingFails ==
    (/\ ReportReturned
     /\ PricesPrinted
     /\ given # None
     /\ \A i \in DOMAIN fed : fed[i].fetch = "ok" /\ fed[i].first # 0)
    => /\ CountLines("row") = Len(syms)
       /\ CountLines("header") = 1
       /\ CountLines("total") = 1
       /\ out[Len(out)].kind = "total"

\* a returned report of two symbols, called with an empty wallet, no failure
RowCountWitness ==
    /\ ReportReturned
    /\ PricesPrinted
    /\ given # None
    /\ given[1].data.order = <<>>
    /\ Len(syms) = 2
    /\ \A i \in DOMAIN fed : fed[i].fetch = "ok" /\ fed[i].first # 0

(* C10 (as claimed): in the report called with a wallet every data row's   *)
(* wallet value is the amount that wallet holds of the symbol times the    *)
(* fetched current price, and the total is the sum of the wallet values of *)
(* the rows printed.                                                       *)
RowsValuedWithSuppliedWallet ==
    (PricesPrinted /\ given # None) =>
        /\ \A i \in 1..Visited :
              LineOf(i).kind = "row" =>
                 LineOf(i).wallet_value = HeldAmount(given[1], syms[i]) * fed[i].price
        /\ total_value = SumRowValues(Visited)
        /\ pc = "idle" => out[Len(out)] = TotalLine(SumRowValues(Visited))

(* A step from pc = "idle" to last.op = "main" is a run of main up to its   *)
(* dispatch.                                                               *)

(* C8: main runs the one mode its arguments select, in the order ath,      *)
(* wallet update, wallet show, wallet clear, price report; with ath set no *)
(* file is written and the wallet mapping is the one loaded.               *)
ModeOrder == <<"ath", "update", "show", "clear", "prices">>

Requested(args) ==
    (IF args.ath THEN {"ath"} ELSE {})
    \cup (IF args.wallet # None THEN {args.wallet[1]} ELSE {})
    \cup {"prices"}

SelectedMode(args) ==
    ModeOrder[CHOOSE i \in DOMAIN ModeOrder :
                 /\ ModeOrder[i] \in Requested(args)
                 /\ \A j \in 1..(i - 1) : ModeOrder[j] \notin Requested(args)]

DispatchPrecedence ==
    [][(pc = "idle" /\ last'.op = "main") =>
        LET mode == SelectedMode(cli'.args)
        IN  /\ cli'.ran = mode
            /\ mode = "ath" =>
                  /\ pc' = "ath:high"
                  /\ out'[1] = TitleLine("ath")
                  /\ files' = files
                  /\ wallet'.data.amt = StoredMapping(files, WalletFile)
            /\ mode \in {"show", "prices"} =>
                  /\ pc' = "prices:daily"
                  /\ out'[1] = TitleLine("prices")
                  /\ files' = files
            /\ mode \in {"update", "clear"} =>
                  /\ pc' = "idle"
                  /\ out'[1].kind \notin {"title", "header"}]_vars

\* ath together with a complete wallet update: the all-time highs run
DispatchWitness ==
    /\ last.op = "main"
    /\ cli.args.ath
    /\ cli.args.wallet = Some("update")
    /\ cli.args.symbol = Some("BTC")
    /\ cli.args.amount # None
    /\ pc = "ath:high"

(* C9 (as claimed): in the wallet update mode, a missing symbol or amount  *)
(* prints the error and changes neither the mapping nor the file; with     *)
(* both supplied the wallet maps the symbol to the amount.                 *)
UpdateNeedsBothArguments ==
    [][(pc = "idle" /\ last'.op = "main" /\ ~cli'.args.ath /\ cli'.args.wallet = Some("update")) =>
        IF cli'.args.symbol = None \/ cli'.args.amount = None
        THEN /\ out' = <<[kind |-> "must provide", sym |-> ""]>>
             /\ files' = files
             /\ wallet'.data.amt = StoredMapping(files, WalletFile)
        ELSE /\ cli'.args.symbol[1] \in DOMAIN wallet'.data.amt
             /\ wallet'.data.amt[cli'.args.symbol[1]] = cli'.args.amount[1]
             /\ StoredMapping(files', WalletFile) = wallet'.data.amt]_vars

(* C9 (amended): in the wallet update mode, a missing or empty symbol or a *)
(* missing amount prints the error and changes neither the mapping nor the *)
(* file; with a non-empty symbol and an amount (0 included) the wallet     *)
(* maps the symbol to the amount, in memory and in the file.               *)
UpdateNeedsSymbolAndAmount ==
    [][(pc = "idle" /\ last'.op = "main" /\ ~cli'.args.ath /\ cli'.args.wallet = Some("update")) =>
        IF cli'.args.symbol = None \/ cli'.args.symbol = Some("")
           \/ cli'.args.amount = None
        THEN /\ out' = <<[kind |-> "must provide", sym |-> ""]>>
             /\ files' = files
             /\ wallet'.data.amt = StoredMapping(files, WalletFile)
        ELSE /\ cli'.args.symbol[1] \in DOMAIN wallet'.data.amt
             /\ wallet'.data.amt[cli'.args.symbol[1]] = cli'.args.amount[1]
             /\ StoredMapping(files', WalletFile) = wallet'.data.amt]_vars

\* an update to the amount 0 of a symbol, stored
UpdateZeroWitness ==
    /\ last.op = "main"
    /\ cli.ran = "update"
    /\ cli.args.amount = Some(0)
    /\ "BTC" \in DOMAIN wallet.data.amt
    /\ wallet.data.amt["BTC"] = 0
    /\ files[WalletFile].exists

====
